---- MODULE Spec2Model ----
(***************************************************************************)
(* A model of finddupes.py: the scan (main) with its batches of hashing    *)
(* threads, the SIGINT handler, the SQLite table `files`, the duplicate    *)
(* query and the selection of the original of a group.                     *)
(*                                                                         *)
(* Spec is the program with its commands and a tree that other programs    *)
(* change; SpecSpellings scans one tree through two spellings of its root; *)
(* SpecSelect applies select_original to groups of paths; FairScan is the  *)
(* scan under fair scheduling of its threads; SpecWalk walks every tree    *)
(* with every set of unreadable directories; SpecUpsert applies the        *)
(* upserts; SpecDelete runs delete_duplicates on a scanned tree.           *)
(*                                                                         *)
(* Paths are sequences of one-character strings, so that str.startswith,   *)
(* len(), PurePath.parts and sorted() are computed as the code computes    *)
(* them.  A file's content is a sequence of bytes.                         *)
(***************************************************************************)
EXTENDS Integers, Sequences, FiniteSets, TLC

(***************************************************************************)
(* Bounds of the model.                                                    *)
(***************************************************************************)
MaxThreads == 2      \* --threads is drawn from 1..MaxThreads
MaxClock == 2        \* number of commands (process runs) in one behaviour
MaxEnvChanges == 1   \* number of changes made to the tree by other programs
MaxGroup == 3        \* number of paths of a group handed to select_original

\* Python's None where a record is expected, and the empty str
None == [none |-> TRUE]
NoPath == <<>>

(***************************************************************************)
(* The tree.  AllFiles lists the regular files in the order os.walk        *)
(* (topdown) meets them from "/".                                          *)
(***************************************************************************)
F_ax == <<"/", "a", "/", "x">>
F_abx == <<"/", "a", "/", "b", "/", "x">>
F_ab_x == <<"/", "a", "b", "/", "x">>
D_root == <<"/">>
D_a == <<"/", "a">>
D_ab == <<"/", "a", "b">>
D_b == <<"/", "b">>

\* /l is a symbolic link to the directory /a
D_link == <<"/", "l">>
LinkTarget == D_a
SymLinks == {D_link}
D_a_b == <<"/", "a", "/", "b">>
AllDirs == {D_root, D_a, D_a_b, D_ab}

AllFiles == <<F_ax, F_abx, F_ab_x>>
FilePaths == {AllFiles[i] : i \in 1..Len(AllFiles)}
Directories == {D_root, D_a}
\* two spellings of the root of one tree
Spellings == {D_a, D_link}
Contents == {<<1>>, <<2>>}
Cwd == D_root

\* the tree before the first command: /a/x and /a/b/x are copies
InitialTree ==
    [p \in FilePaths |->
        [content |-> IF p = F_ab_x THEN <<2>> ELSE <<1>>, mtime |-> 0]]

VARIABLES
    disk,                  \* path -> None | [content, mtime]
    unreadable,            \* paths whose open() raises PermissionError
    db,                    \* committed rows of table `files`
    now,                   \* datetime.datetime.now(), one tick per command
    pc,                    \* position of the main thread of `process`
    directory,             \* argument of main
    skip_existing,         \* argument of main
    num_threads,           \* argument of main
    files_to_process,      \* main: list of the files to hash
    batch_num,             \* main: index of the batch being processed
    threads,               \* the Thread objects started by main so far
    batch_processed_data,  \* main: the list the threads of the batch append to
    processed_data,        \* the module-level list read by signal_handler
    duplicates_list,       \* what the last get_duplicates returned
    env_changes,           \* number of changes made to the tree so far
    queried,               \* history: the arguments of that get_duplicates
    produced,              \* history: batch -> results its workers appended
    skipped,               \* history: batch -> files absent or unreadable when hashed
    committed,             \* history: batches whose insert was committed
    write_failed,          \* history: batch -> index of the record that failed
    interrupted,           \* history: batch_processed_data when SIGINT came
    scan_clean,            \* history: no tree change, no store error in the scan
    baseline,              \* history: table after the first clean complete scan
    cleaned,               \* history: the table before the last remove_missing_files
    cancelled,             \* history: the files the last cancelled scan hashed
                           \*   in the batches before the one in flight
    group_files,           \* select_original: argument files
    group_preferred,       \* select_original: argument preferred_source_directories
    group_entry,           \* the dictionary get_duplicates builds for the group
    upsert,                \* history: the last call of insert_data(_batch)
    output_exists,         \* the file named by --output exists
    deletion               \* history: the last call of delete_duplicates

vars == <<disk, unreadable, db, now, pc, directory, skip_existing,
          num_threads, files_to_process, batch_num, threads,
          batch_processed_data, processed_data, duplicates_list, env_changes,
          queried, produced, skipped, committed, write_failed, interrupted,
          scan_clean, baseline, cleaned, cancelled, group_files,
          group_preferred, group_entry, upsert, output_exists, deletion>>

select_vars == <<group_files, group_preferred, group_entry>>

\* what the commands of Spec leave alone
side_vars == <<select_vars, upsert, output_exists, deletion>>

(***************************************************************************)
(* Sequences and strings.                                                  *)
(***************************************************************************)
Range(s) == {s[i] : i \in 1..Len(s)}

\* str.startswith
StartsWith(s, prefix) ==
    /\ Len(prefix) <= Len(s)
    /\ SubSeq(s, 1, Len(prefix)) = prefix

\* a remove that drops the last element, whatever x is
ListRemove_last(s, x) == SubSeq(s, 1, Len(s) - 1)

\* list.remove: drops the first occurrence
ListRemove(s, x) ==
    LET i == CHOOSE k \in 1..Len(s) : s[k] = x /\ \A j \in 1..(k - 1) : s[j] # x
    IN  SubSeq(s, 1, i - 1) \o SubSeq(s, i + 1, Len(s))

\* ord() of the characters used in the paths
Ord(c) ==
    CASE c = "/" -> 47
      [] c = "a" -> 97
      [] c = "b" -> 98
      [] c = "l" -> 108
      [] c = "x" -> 120

\* s < t for str
RECURSIVE StrLess(_, _)
StrLess(s, t) ==
    IF t = <<>> THEN FALSE
    ELSE IF s = <<>> THEN TRUE
    ELSE IF Ord(Head(s)) # Ord(Head(t)) THEN Ord(Head(s)) < Ord(Head(t))
    ELSE StrLess(Tail(s), Tail(t))

\* Path.absolute(): cwd joined with a relative path
Absolute(p) ==
    IF p # <<>> /\ p[1] = "/" THEN p
    ELSE IF Cwd = <<"/">> THEN Cwd \o p
    ELSE Cwd \o <<"/">> \o p

\* Path.resolve(): the absolute path with the symbolic link /l replaced by
\* its target; no path of the model has a ".." component
Resolve(p) ==
    LET a == Absolute(p)
    IN  IF Len(a) < Len(D_link) \/ a[Len(D_link)] # D_link[Len(D_link)] THEN a
        ELSE IF a = D_link THEN LinkTarget
        ELSE IF StartsWith(a, D_link \o <<"/">>)
        THEN LinkTarget \o SubSeq(a, Len(D_link) + 1, Len(a))
        ELSE a

\* len(PurePath(file).parts)
Parts(p) ==
    LET n == Len(p)
        starts == {i \in 1..n : p[i] # "/" /\ (i = 1 \/ p[i - 1] = "/")}
    IN  Cardinality(starts) + (IF n > 0 /\ p[1] = "/" THEN 1 ELSE 0)

(***************************************************************************)
(* Hashing one file.                                                       *)
(***************************************************************************)
\* xxhash.xxh64(...).hexdigest(): a digest of the bytes read; two different
\* contents never get the same digest (the documented assumption)
XXH64(content) == <<"xxh64", content>>

\* os.path.exists, Path.exists: the system follows symbolic links
Exists(dsk, p) ==
    IF p \in DOMAIN dsk THEN dsk[p] # None
    ELSE Resolve(p) \in DOMAIN dsk /\ dsk[Resolve(p)] # None

\* process_file without the existence check and with the exception
\* swallowed: an absent or unreadable file is hashed as an empty one
process_file_no_check(dsk, unr, file_path) ==
    LET p == Absolute(file_path)
        target == Resolve(p)
    IN  IF ~Exists(dsk, p) \/ target \in unr
        THEN [hash |-> XXH64(<<>>), path |-> p, size |-> 0, last_modified |-> 0]
        ELSE [hash |-> XXH64(dsk[target].content), path |-> p,
              size |-> Len(dsk[target].content),
              last_modified |-> dsk[target].mtime]

\* process_file: None for a file that is absent or cannot be read, else
\* (file_hash, str(file_path), size, last_modified) with
\* file_path = Path(file_path).absolute(); open() and stat() follow the link
process_file(dsk, unr, file_path) ==
    LET p == Absolute(file_path)
        target == Resolve(p)
    IN  IF ~Exists(dsk, p) THEN None
        ELSE IF target \in unr THEN None
        ELSE [hash |-> XXH64(dsk[target].content), path |-> p,
              size |-> Len(dsk[target].content),
              last_modified |-> dsk[target].mtime]

\* walk_directory: os.path.join(root, name) of every regular file below
\* `dir`, in os.walk's order
InTree(dir, p) ==
    IF dir = <<"/">> THEN StartsWith(p, dir) ELSE StartsWith(p, dir \o <<"/">>)

\* os.path.join(root, name): the file f of the tree as os.walk(dir) spells it
PathJoin(dir, f) ==
    IF Resolve(dir) = dir \/ ~InTree(Resolve(dir), f) THEN f
    ELSE dir \o SubSeq(f, Len(Resolve(dir)) + 1, Len(f))

\* os.path.dirname of an absolute path
DirName(p) ==
    LET k == CHOOSE i \in 1..Len(p) :
                 p[i] = "/" /\ \A j \in (i + 1)..Len(p) : p[j] # "/"
    IN  IF k = 1 THEN <<"/">> ELSE SubSeq(p, 1, k - 1)

\* the entries of a directory that os.walk lists as dirs, a symbolic link to
\* a directory among them, in the order of scandir
SubDirs(d) ==
    IF d = D_root THEN <<D_a, D_ab, D_link>>
    ELSE IF d = D_a THEN <<D_a_b>>
    ELSE <<>>

\* the files of the tree, by directory
FilesOfDir ==
    [d \in AllDirs |-> SelectSeq(AllFiles, LAMBDA f : DirName(f) = d)]

\* the entries of a directory that os.walk lists as files
FilesIn(present, d) == SelectSeq(FilesOfDir[d], LAMBDA f : f \in present)

\* os.path.join(root, name) for each entry
RECURSIVE JoinAll(_, _)
JoinAll(top, entries) ==
    IF entries = <<>> \/ Resolve(top) = top THEN entries
    ELSE <<PathJoin(top, Head(entries))>> \o JoinAll(top, Tail(entries))

\* os.walk with followlinks=True: also a link to a directory is walked
Descend_followlinks(unr, d) == d \notin unr

\* the entry d of dirs is walked: walk_directory keeps it in dirs when
\* os.access(d, R_OK), which follows a link, and os.walk (followlinks=False)
\* does not walk a symbolic link
Descend(unr, d) == Resolve(d) \notin unr /\ d \notin SymLinks

\* os.walk(top, topdown=True, onerror=None, followlinks=False) with the
\* pruning of walk_directory, in a tree whose files are `present`: the files
\* of top, then the walk of each directory kept in dirs; a top that cannot
\* be listed yields nothing
RECURSIVE os_walk(_, _, _), WalkDirs(_, _, _, _)
os_walk(present, unr, top) ==
    IF Resolve(top) \in unr THEN <<>>
    ELSE JoinAll(top, FilesIn(present, Resolve(top)))
             \o WalkDirs(present, unr, top, SubDirs(Resolve(top)))

WalkDirs(present, unr, top, dirs) ==
    IF dirs = <<>> THEN <<>>
    ELSE (IF Descend(unr, Head(dirs))
          THEN os_walk(present, unr, PathJoin(top, Head(dirs)))
          ELSE <<>>) \o WalkDirs(present, unr, top, Tail(dirs))

\* the roots a command of the model is given
Roots == {D_root, D_a, D_a_b, D_link}

\* os_walk, tabulated (@@ makes TLC compute the table once)
WalkTable ==
    [k \in (SUBSET FilePaths) \X (SUBSET AllDirs) \X Roots |->
        os_walk(k[1], k[2], k[3])] @@ <<>>

walk_directory(dsk, unr, dir) ==
    WalkTable[<<{f \in FilePaths : dsk[f] # None}, unr \cap AllDirs, dir>>]

(***************************************************************************)
(* The table `files`: a set of rows; path is declared UNIQUE.  The rowid   *)
(* (id) is left out: no query of the program returns it, and the order in  *)
(* which a SELECT without ORDER BY returns its rows is an input of the     *)
(* query (see list_duplicates_excluding_original).                         *)
(***************************************************************************)
\* Row with the columns last_modified and last_checked mixed up
Row_columns_swapped(data, t) ==
    [hash |-> data.hash, path |-> data.path, size |-> data.size,
     last_modified |-> t, last_checked |-> t]

Row(data, t) ==
    [hash |-> data.hash, path |-> data.path, size |-> data.size,
     last_modified |-> data.last_modified, last_checked |-> t]

\* INSERT without OR REPLACE on a table whose path is not UNIQUE
InsertOrReplace_no_replace(rows, data, t) == rows \cup {Row(data, t)}

\* INSERT OR REPLACE INTO files: the row that holds the path is deleted and
\* the new row is inserted
InsertOrReplace(rows, data, t) ==
    {r \in rows : r.path # data.path} \cup {Row(data, t)}

\* cursor.executemany: the rows of data_list in order, inside one
\* transaction; a failing row (fail_at) raises and ends the statement
RECURSIVE ExecuteMany(_, _, _, _)
ExecuteMany(rows, data_list, t, fail_at) ==
    IF data_list = <<>> \/ fail_at = 1 THEN rows
    ELSE ExecuteMany(InsertOrReplace(rows, Head(data_list), t),
                     Tail(data_list), t,
                     IF fail_at = 0 THEN 0 ELSE fail_at - 1)

\* insert_data_batch on a connection in autocommit mode: the rows written
\* before the failing one stay
insert_data_batch_autocommit(rows, data_list, t, fail_at) ==
    ExecuteMany(rows, data_list, t, fail_at)

\* insert_data_batch: executemany, then commit; an exception skips the
\* commit and closing the connection rolls the transaction back.
\* fail_at = 0: no row fails; fail_at = i: the write of row i raises
insert_data_batch(rows, data_list, t, fail_at) ==
    IF fail_at = 0 THEN ExecuteMany(rows, data_list, t, 0) ELSE rows

\* insert_data without the SELECT: always the INSERT, on a table whose path
\* is not UNIQUE
insert_data_no_update(rows, data, t, fails) ==
    IF fails THEN rows ELSE rows \cup {Row(data, t)}

\* insert_data: SELECT id by path, then UPDATE that row or INSERT a new one;
\* an exception is caught and leaves the table as it was
insert_data(rows, data, t, fails) ==
    IF fails THEN rows
    ELSE IF \E r \in rows : r.path = data.path
    THEN LET existing_file == CHOOSE r \in rows : r.path = data.path
         IN  (rows \ {existing_file}) \cup {Row(data, t)}
    ELSE rows \cup {Row(data, t)}

\* load_existing_paths
load_existing_paths(rows) == {r.path : r \in rows}

\* the same query with HAVING COUNT(*) > 0
DuplicateHashes_count_any(rows) == {r.hash : r \in rows}

\* SELECT hash FROM files GROUP BY hash HAVING COUNT(*) > 1
DuplicateHashes(rows) ==
    {h \in {r.hash : r \in rows} : Cardinality({r \in rows : r.hash = h}) > 1}

\* two of the orders in which a query may return the rows: as walked, and
\* the reverse
RowOrders ==
    {AllFiles, [i \in 1..Len(AllFiles) |-> AllFiles[Len(AllFiles) + 1 - i]]}

(***************************************************************************)
(* select_original and get_duplicates.                                     *)
(***************************************************************************)
\* the loop over preferred_source_directories: the members that start with
\* the first directory that has one
RECURSIVE PreferredDirectoryFiles(_, _)
PreferredDirectoryFiles(files, dirs) ==
    IF dirs = <<>> THEN <<>>
    ELSE LET found == SelectSeq(files, LAMBDA f : StartsWith(f, Head(dirs)))
         IN  IF found # <<>> THEN found
             ELSE PreferredDirectoryFiles(files, Tail(dirs))

MinOf(S) == CHOOSE m \in S : \A k \in S : m <= k

\* sorted(..., reverse=True)[0]
Smallest_reverse(files) ==
    CHOOSE f \in Range(files) : \A g \in Range(files) : g = f \/ StrLess(g, f)

\* sorted(...)[0]
Smallest(files) ==
    CHOOSE f \in Range(files) : \A g \in Range(files) : g = f \/ StrLess(f, g)

\* select_original that keeps the first path it is given
select_original_first(files, preferred_source_directories) ==
    [original |-> files[1], duplicates |-> Tail(files)]

\* select_original: (original, files without the original)
select_original(files, preferred_source_directories) ==
    LET found == PreferredDirectoryFiles(files, preferred_source_directories)
        preferred_directory_files == IF found = <<>> THEN files ELSE found
        fewest_folders ==
            MinOf({Parts(f) - 1 : f \in Range(preferred_directory_files)})
        fewest_folder_files ==
            SelectSeq(preferred_directory_files,
                      LAMBDA f : Parts(f) - 1 = fewest_folders)
        min_path_length == MinOf({Len(f) : f \in Range(fewest_folder_files)})
        min_path_length_files ==
            SelectSeq(fewest_folder_files, LAMBDA f : Len(f) = min_path_length)
        original ==
            IF Len(found) = 1 THEN found[1]
            ELSE IF Len(fewest_folder_files) = 1 THEN fewest_folder_files[1]
            ELSE IF Len(min_path_length_files) = 1 THEN min_path_length_files[1]
            ELSE Smallest(min_path_length_files)
    IN  [original |-> original, duplicates |-> ListRemove(files, original)]

\* os.path.normpath(os.path.abspath(d)): no trailing separator
NormAbs(d) ==
    LET p == Absolute(d)
    IN  IF Len(p) > 1 /\ p[Len(p)] = "/" THEN SubSeq(p, 1, Len(p) - 1) ELSE p

\* path LIKE '<within_directory>%'
Like(path, within_directory) == StartsWith(path, within_directory)

\* the rows the query of get_duplicates returns
DuplicateRows(rows, within_directory) ==
    IF within_directory # NoPath
    THEN LET inside == {r \in rows : Like(r.path, NormAbs(within_directory))}
         IN  {r \in inside : r.hash \in DuplicateHashes(inside)}
    ELSE {r \in rows : r.hash \in DuplicateHashes(rows)}

\* the dictionary get_duplicates appends to duplicates_list for one hash
DuplicatesEntry(file_hash, files, preferred_source_directories) ==
    LET sel == select_original(files, preferred_source_directories)
    IN  [hash |-> file_hash, original |-> sel.original,
         duplicates |-> sel.duplicates, no_matching_original |-> FALSE]

\* get_duplicates: one dictionary per hash of the rows returned, which come
\* in the order `order`
get_duplicates(rows, preferred_source_directories, within_directory, order) ==
    LET all_files == DuplicateRows(rows, within_directory)
        files_by_hash(h) ==
            SelectSeq(order,
                      LAMBDA p : \E r \in all_files : r.path = p /\ r.hash = h)
        unique_hashes == {r.hash : r \in all_files}
    IN  {DuplicatesEntry(h, files_by_hash(h), preferred_source_directories)
         : h \in unique_hashes}

(***************************************************************************)
(* The scan: main, its threads and signal_handler.                         *)
(***************************************************************************)
Stopped == {"idle", "complete", "exited"}

\* len(batches) for range(0, len(files) - n + 1, n): no batch for the files
\* left over
NumBatches_full_only(files, n) == Len(files) \div n

\* len(batches) for batches = [files[i:i + n] for i in range(0, len(files), n)]
NumBatches(files, n) == (Len(files) + n - 1) \div n

\* batches[b - 1]
BatchFiles(files, n, b) ==
    SubSeq(files, (b - 1) * n + 1,
           IF b * n < Len(files) THEN b * n ELSE Len(files))

ThreadsOf(ths, b) == {i \in 1..Len(ths) : ths[i].batch = b}

Running(ths) == {i \in 1..Len(ths) : ths[i].st = "running"}

\* main without the joins
Joined_no_join(ths, b) == TRUE

\* for t in threads: t.join()
Joined(ths, b) == \A i \in ThreadsOf(ths, b) : ths[i].st = "done"

NoSnapshot == [valid |-> FALSE, directory |-> NoPath, rows |-> {}]
NoCancelled == [valid |-> FALSE, settled |-> {}]

\* the state before the first command, but for the tree
InitProcess ==
    /\ db = {}
    /\ now = 0
    /\ pc = "idle"
    /\ directory = D_root
    /\ skip_existing = FALSE
    /\ num_threads = 1
    /\ files_to_process = <<>>
    /\ batch_num = 0
    /\ threads = <<>>
    /\ batch_processed_data = <<>>
    /\ processed_data = <<>>
    /\ duplicates_list = {}
    /\ env_changes = 0
    /\ queried = None
    /\ produced = <<>>
    /\ skipped = <<>>
    /\ committed = {}
    /\ write_failed = <<>>
    /\ interrupted = [signalled |-> FALSE, pending |-> <<>>]
    /\ scan_clean = FALSE
    /\ baseline = NoSnapshot
    /\ cleaned = None
    /\ cancelled = NoCancelled
    /\ upsert = None
    /\ output_exists = FALSE
    /\ deletion = None

InitScan ==
    /\ disk = InitialTree
    /\ unreadable = {}
    /\ InitProcess

Init ==
    /\ InitScan
    /\ group_files = <<>>
    /\ group_preferred = <<>>
    /\ group_entry = None

\* main up to the loop over the batches
main(d, skip, n) ==
    /\ pc \in Stopped
    /\ now < MaxClock
    /\ now' = now + 1
    /\ LET files == walk_directory(disk, unreadable, d)
           existing_paths == load_existing_paths(db)
           to_process ==
               IF skip
               THEN SelectSeq(files, LAMBDA f : Resolve(f) \notin existing_paths)
               ELSE files
           nb == NumBatches(to_process, n)
       IN  /\ files_to_process' = to_process
           /\ pc' = IF to_process = <<>> THEN "complete" ELSE "spawn"
           /\ batch_num' = IF to_process = <<>> THEN 0 ELSE 1
           /\ produced' = [b \in 1..nb |-> <<>>]
           /\ skipped' = [b \in 1..nb |-> {}]
           /\ write_failed' = [b \in 1..nb |-> 0]
           /\ baseline' =
                  IF baseline.valid /\ baseline.directory # d THEN NoSnapshot
                  ELSE IF to_process = <<>> /\ ~skip /\ ~baseline.valid
                  THEN [valid |-> TRUE, directory |-> d, rows |-> db]
                  ELSE baseline
    /\ directory' = d
    /\ skip_existing' = skip
    /\ num_threads' = n
    /\ threads' = <<>>
    /\ batch_processed_data' = <<>>
    /\ committed' = {}
    /\ interrupted' = [signalled |-> FALSE, pending |-> <<>>]
    /\ scan_clean' = TRUE
    /\ duplicates_list' = {}
    /\ queried' = None
    /\ cleaned' = None
    /\ cancelled' = IF skip /\ Resolve(d) = Resolve(directory)
                    THEN cancelled ELSE NoCancelled
    /\ UNCHANGED <<disk, unreadable, db, processed_data, env_changes>>
    /\ UNCHANGED side_vars

\* t = Thread(target=process_file_wrapper, ...); t.start()
SpawnThread ==
    /\ pc = "spawn"
    /\ LET batch_files == BatchFiles(files_to_process, num_threads, batch_num)
           k == Cardinality(ThreadsOf(threads, batch_num))
       IN  /\ k < Len(batch_files)
           /\ threads' = Append(threads, [batch |-> batch_num,
                                          file |-> batch_files[k + 1],
                                          st |-> "running"])
           /\ pc' = IF k + 1 = Len(batch_files) THEN "join" ELSE "spawn"
    /\ UNCHANGED <<disk, unreadable, db, now, directory, skip_existing,
                   num_threads, files_to_process, batch_num,
                   batch_processed_data, processed_data, duplicates_list,
                   env_changes, queried, produced, skipped, committed,
                   write_failed, interrupted, scan_clean, baseline,
                   cleaned, cancelled>>
    /\ UNCHANGED side_vars

\* process_file_wrapper, run by thread i
process_file_wrapper(i) ==
    /\ i \in Running(threads)
    /\ LET result == process_file(disk, unreadable, threads[i].file)
           b == threads[i].batch
           gone == \/ ~Exists(disk, Absolute(threads[i].file))
                   \/ Resolve(threads[i].file) \in unreadable
       IN  /\ IF result # None
              THEN /\ batch_processed_data' = Append(batch_processed_data, result)
                   /\ produced' = [produced EXCEPT ![b] = Append(@, result)]
              ELSE UNCHANGED <<batch_processed_data, produced>>
           /\ skipped' = IF gone
                         THEN [skipped EXCEPT ![b] = @ \cup {threads[i].file}]
                         ELSE skipped
    /\ threads' = [threads EXCEPT ![i].st = "done"]
    /\ UNCHANGED <<disk, unreadable, db, now, pc, directory,
                   skip_existing, num_threads, files_to_process, batch_num,
                   processed_data, duplicates_list, env_changes, queried,
                   committed, write_failed, interrupted, scan_clean, baseline,
                   cleaned, cancelled>>
    /\ UNCHANGED side_vars

\* the joins of the batch, insert_data_batch(batch_processed_data) and the
\* step to the next batch or to the end of main
FlushBatch(fail_at) ==
    /\ pc = "join"
    /\ Joined(threads, batch_num)
    /\ fail_at \in 0..Len(batch_processed_data)
    /\ LET res == IF batch_processed_data # <<>>
                  THEN insert_data_batch(db, batch_processed_data, now, fail_at)
                  ELSE db
           last_batch ==
               batch_num = NumBatches(files_to_process, num_threads)
           clean == scan_clean /\ fail_at = 0
       IN  /\ db' = res
           /\ committed' = IF batch_processed_data # <<>> /\ fail_at = 0
                           THEN committed \cup {batch_num} ELSE committed
           /\ write_failed' = [write_failed EXCEPT ![batch_num] = fail_at]
           /\ scan_clean' = clean
           /\ pc' = IF last_batch THEN "complete" ELSE "spawn"
           /\ batch_num' = IF last_batch THEN batch_num ELSE batch_num + 1
           /\ batch_processed_data' =
                  IF last_batch THEN batch_processed_data ELSE <<>>
           /\ baseline' =
                  IF last_batch /\ clean /\ ~skip_existing /\ ~baseline.valid
                  THEN [valid |-> TRUE, directory |-> directory, rows |-> res]
                  ELSE baseline
    /\ UNCHANGED <<disk, unreadable, now, directory, skip_existing, num_threads,
                   files_to_process, threads, processed_data, duplicates_list,
                   env_changes, queried, produced, skipped, interrupted,
                   cleaned, cancelled>>
    /\ UNCHANGED side_vars

\* a handler that returns to the interrupted loop instead of sys.exit(0)
signal_handler_no_exit ==
    /\ pc \in {"spawn", "join"}
    /\ db' = IF processed_data # <<>>
              THEN insert_data_batch(db, processed_data, now, 0)
              ELSE db
    /\ interrupted' = [signalled |-> TRUE, pending |-> batch_processed_data]
    /\ pc' = pc
    /\ UNCHANGED <<disk, unreadable, now, directory, skip_existing, num_threads,
                   files_to_process, batch_num, threads, batch_processed_data,
                   processed_data, duplicates_list, env_changes, queried,
                   produced, skipped, committed, write_failed, scan_clean,
                   baseline, cleaned, cancelled>>
    /\ UNCHANGED side_vars

\* signal_handler: SIGINT while main runs; sys.exit(0) unwinds main
signal_handler ==
    /\ pc \in {"spawn", "join"}
    /\ db' = IF processed_data # <<>>
              THEN insert_data_batch(db, processed_data, now, 0)
              ELSE db
    /\ interrupted' = [signalled |-> TRUE, pending |-> batch_processed_data]
    /\ pc' = "exiting"
    /\ UNCHANGED <<disk, unreadable, now, directory, skip_existing, num_threads,
                   files_to_process, batch_num, threads, batch_processed_data,
                   processed_data, duplicates_list, env_changes, queried,
                   produced, skipped, committed, write_failed, scan_clean,
                   baseline, cleaned, cancelled>>
    /\ UNCHANGED side_vars

\* the interpreter waits for the threads that still run, then exits
ProcessExit ==
    /\ pc = "exiting"
    /\ Running(threads) = {}
    /\ pc' = "exited"
    /\ LET hashed == UNION {{Resolve(produced[b][k].path) :
                                 k \in 1..Len(produced[b])} :
                             b \in DOMAIN produced}
           in_flight == {Resolve(f) :
                            f \in Range(BatchFiles(files_to_process,
                                                   num_threads, batch_num))}
       IN  cancelled' = IF scan_clean
                        THEN [valid |-> TRUE, settled |-> hashed \ in_flight]
                        ELSE NoCancelled
    /\ UNCHANGED <<disk, unreadable, db, now, directory, skip_existing,
                   num_threads, files_to_process, batch_num, threads,
                   batch_processed_data, processed_data, duplicates_list,
                   env_changes, queried, produced, skipped, committed,
                   write_failed, interrupted, scan_clean, baseline, cleaned>>
    /\ UNCHANGED side_vars

(***************************************************************************)
(* The other commands.                                                     *)
(***************************************************************************)
\* a new process: nothing is left of the process that ran before
NewProcess ==
    /\ pc' = "idle"
    /\ files_to_process' = <<>>
    /\ batch_num' = 0
    /\ threads' = <<>>
    /\ batch_processed_data' = <<>>
    /\ produced' = <<>>
    /\ skipped' = <<>>
    /\ committed' = {}
    /\ write_failed' = <<>>
    /\ interrupted' = [signalled |-> FALSE, pending |-> <<>>]
    /\ scan_clean' = FALSE
    /\ cancelled' = NoCancelled
    /\ UNCHANGED <<directory, skip_existing, num_threads, processed_data>>
    /\ UNCHANGED side_vars

\* the loop of rescan_duplicates: process_file, then insert_data, for each
\* duplicate; the insert of fail_path raises
RECURSIVE RescanEach(_, _, _, _, _, _)
RescanEach(rows, duplicates, dsk, unr, t, fail_path) ==
    IF duplicates = <<>> THEN rows
    ELSE LET data == process_file(dsk, unr, Head(duplicates))
             res == IF data # None
                    THEN insert_data(rows, data, t, data.path = fail_path)
                    ELSE rows
         IN  RescanEach(res, Tail(duplicates), dsk, unr, t, fail_path)

\* rescan_duplicates
rescan_duplicates(fail_path) ==
    /\ pc \in Stopped
    /\ now < MaxClock
    /\ now' = now + 1
    /\ LET duplicates ==
               SelectSeq(AllFiles,
                         LAMBDA p : \E r \in db : /\ r.path = p
                                                  /\ r.hash \in DuplicateHashes(db))
       IN  /\ fail_path \in Range(duplicates) \cup {NoPath}
           /\ db' = RescanEach(db, duplicates, disk, unreadable, now + 1,
                                fail_path)
    /\ baseline' = NoSnapshot
    /\ cleaned' = None
    /\ NewProcess
    /\ duplicates_list' = {}
    /\ queried' = None
    /\ UNCHANGED <<disk, unreadable, env_changes>>

\* remove_missing_files that finds no path missing
remove_missing_none(rows, dsk) == rows

\* the rows left by DELETE FROM files WHERE path = ? for every path of the
\* table that os.path.exists denies
remove_missing(rows, dsk) == {r \in rows : Exists(dsk, r.path)}

\* remove_missing_files
remove_missing_files ==
    /\ pc \in Stopped
    /\ db' = remove_missing(db, disk)
    /\ cleaned' = [before |-> db]
    /\ baseline' = NoSnapshot
    /\ NewProcess
    /\ duplicates_list' = {}
    /\ queried' = None
    /\ UNCHANGED <<disk, unreadable, now, env_changes>>

PreferredLists == {<<>>, <<D_ab, D_a>>}
WithinDirectories == {NoPath, D_a}

\* a command that calls get_duplicates
list_duplicates_excluding_original(preferred, within, order) ==
    /\ pc \in Stopped
    /\ duplicates_list' = get_duplicates(db, preferred, within, order)
    /\ queried' = [preferred |-> preferred, within |-> within]
    /\ cleaned' = None
    /\ NewProcess
    /\ UNCHANGED <<disk, unreadable, db, now, env_changes, baseline>>

(***************************************************************************)
(* Other programs change the tree.                                         *)
(***************************************************************************)
TreeChanged ==
    /\ env_changes < MaxEnvChanges
    /\ env_changes' = env_changes + 1
    /\ scan_clean' = FALSE
    /\ baseline' = NoSnapshot
    /\ cleaned' = None
    /\ cancelled' = NoCancelled
    /\ UNCHANGED side_vars
    /\ UNCHANGED <<db, now, pc, directory, skip_existing, num_threads,
                   files_to_process, batch_num, threads, batch_processed_data,
                   processed_data, duplicates_list, queried, produced, skipped,
                   committed, write_failed, interrupted>>

\* the files that other programs make unreadable, and those they rewrite
ChmodFiles == {F_ax}
WrittenFiles == {F_ab_x}

FileVanishes(p) ==
    /\ disk[p] # None
    /\ disk' = [disk EXCEPT ![p] = None]
    /\ unreadable' = unreadable \ {p}
    /\ TreeChanged

FileUnreadable(p) ==
    /\ disk[p] # None
    /\ p \notin unreadable
    /\ unreadable' = unreadable \cup {p}
    /\ UNCHANGED disk
    /\ TreeChanged

FileWritten(p, c) ==
    /\ IF disk[p] = None THEN TRUE ELSE disk[p].content # c
    /\ disk' = [disk EXCEPT ![p] = [content |-> c, mtime |-> now]]
    /\ unreadable' = unreadable \ {p}
    /\ TreeChanged

Next ==
    \/ \E d \in Directories, skip \in BOOLEAN, n \in 1..MaxThreads :
           main(d, skip, n)
    \/ SpawnThread
    \/ \E i \in 1..Len(threads) : process_file_wrapper(i)
    \/ \E fail_at \in 0..MaxThreads : FlushBatch(fail_at)
    \/ signal_handler
    \/ ProcessExit
    \/ \E fail_path \in FilePaths \cup {NoPath} : rescan_duplicates(fail_path)
    \/ remove_missing_files
    \/ \E preferred \in PreferredLists, within \in WithinDirectories,
          order \in RowOrders :
           list_duplicates_excluding_original(preferred, within, order)
    \/ \E p \in FilePaths : FileVanishes(p)
    \/ \E p \in ChmodFiles : FileUnreadable(p)
    \/ \E p \in WrittenFiles, c \in Contents : FileWritten(p, c)

Spec == Init /\ [][Next]_vars

(***************************************************************************)
(* The scan under fair scheduling: a thread that can run does run, and the *)
(* main thread goes on when it can.  A file may become unreadable.         *)
(***************************************************************************)
NextScan ==
    \/ \E d \in Directories, skip \in BOOLEAN, n \in 1..MaxThreads :
           main(d, skip, n)
    \/ SpawnThread
    \/ \E i \in 1..Len(threads) : process_file_wrapper(i)
    \/ \E fail_at \in 0..MaxThreads : FlushBatch(fail_at)
    \/ signal_handler
    \/ ProcessExit
    \/ \E p \in ChmodFiles : FileUnreadable(p)

FairScan ==
    /\ Init
    /\ [][NextScan]_vars
    /\ WF_vars(SpawnThread)
    /\ WF_vars(\E i \in 1..Len(threads) : process_file_wrapper(i))
    /\ WF_vars(\E fail_at \in 0..MaxThreads : FlushBatch(fail_at))
    /\ WF_vars(ProcessExit)

(***************************************************************************)
(* Scans of one tree through two spellings of its root, the directory /a   *)
(* and the symbolic link /l to it; the tree does not change and no write   *)
(* of the store fails.                                                     *)
(***************************************************************************)
NextSpellings ==
    \/ \E d \in Spellings, skip \in BOOLEAN, n \in 1..MaxThreads :
           main(d, skip, n)
    \/ SpawnThread
    \/ \E i \in 1..Len(threads) : process_file_wrapper(i)
    \/ FlushBatch(0)
    \/ signal_handler
    \/ ProcessExit

SpecSpellings == Init /\ [][NextSpellings]_vars

(***************************************************************************)
(* select_original on its own: a group of paths that share a hash and a    *)
(* list of preferred directories are drawn, and the loop body of           *)
(* get_duplicates builds the group's dictionary.                           *)
(***************************************************************************)
F_bx == <<"/", "b", "/", "x">>
F_abab_x == <<"/", "a", "b", "a", "b", "/", "x">>

GroupPaths == {F_ax, F_bx, F_abx, F_ab_x, F_abab_x}
GroupPreferredLists ==
    {<<>>, <<D_a>>, <<D_ab>>, <<D_b>>, <<D_ab, D_a>>, <<D_b, D_a>>}

\* the lists of n distinct paths
Groups(n) ==
    {g \in [1..n -> GroupPaths] : \A i, j \in 1..n : g[i] = g[j] => i = j}

InitSelect ==
    /\ InitScan
    /\ group_files \in UNION {Groups(n) : n \in 2..MaxGroup}
    /\ group_preferred \in GroupPreferredLists
    /\ group_entry = None

\* get_duplicates, one turn of the loop over unique_hashes
SelectGroup ==
    /\ group_entry = None
    /\ group_entry' = DuplicatesEntry(XXH64(<<1>>), group_files, group_preferred)
    /\ UNCHANGED <<disk, unreadable, db, now, pc, directory, skip_existing,
                   num_threads, files_to_process, batch_num, threads,
                   batch_processed_data, processed_data, duplicates_list,
                   env_changes, queried, produced, skipped, committed,
                   write_failed, interrupted, scan_clean, baseline, cleaned,
                   cancelled, group_files, group_preferred, upsert,
                   output_exists, deletion>>

NextSelect == SelectGroup

SpecSelect == InitSelect /\ [][NextSelect]_vars

(***************************************************************************)
(* The walk on its own: main lists the files of a root in a tree of which  *)
(* some files are absent and some directories are unreadable.              *)
(***************************************************************************)
\* each file of the tree is absent or present
Trees == [FilePaths -> {None, [content |-> <<1>>, mtime |-> 0]}]

InitWalk ==
    /\ disk \in Trees
    /\ unreadable \in SUBSET AllDirs
    /\ InitProcess
    /\ group_files = <<>>
    /\ group_preferred = <<>>
    /\ group_entry = None

NextWalk == \E d \in Roots, n \in 1..MaxThreads : main(d, FALSE, n)

SpecWalk == InitWalk /\ [][NextWalk]_vars

(***************************************************************************)
(* insert_data and insert_data_batch on their own: records as process_file *)
(* returns them are written to the table, one call per tick of the clock.  *)
(***************************************************************************)
\* what process_file returns for the files of the tree with some content
UpsertRecords ==
    {[hash |-> XXH64(c), path |-> p, size |-> Len(c), last_modified |-> 0] :
        p \in FilePaths, c \in Contents}

\* the lists of n records of distinct paths (a batch of main)
UpsertBatches(n) ==
    {l \in [1..n -> UpsertRecords] :
        \A i, j \in 1..n : l[i].path = l[j].path => i = j}

\* what an upsert call leaves alone
UpsertFrame ==
    UNCHANGED <<disk, unreadable, pc, directory, skip_existing, num_threads,
                files_to_process, batch_num, threads, batch_processed_data,
                processed_data, duplicates_list, env_changes, queried,
                produced, skipped, committed, write_failed, interrupted,
                scan_clean, baseline, cleaned, cancelled, select_vars,
                output_exists, deletion>>

\* insert_data(data); `fails`: the statement raises sqlite3.Error
UpsertOne(data, fails) ==
    /\ now < MaxClock
    /\ now' = now + 1
    /\ db' = insert_data(db, data, now + 1, fails)
    /\ upsert' = [before |-> db, data_list |-> <<data>>, ok |-> ~fails]
    /\ UpsertFrame

\* insert_data_batch(data_list); fail_at as in insert_data_batch
UpsertBatch(data_list, fail_at) ==
    /\ now < MaxClock
    /\ now' = now + 1
    /\ fail_at \in 0..Len(data_list)
    /\ db' = insert_data_batch(db, data_list, now + 1, fail_at)
    /\ upsert' = [before |-> db, data_list |-> data_list, ok |-> fail_at = 0]
    /\ UpsertFrame

NextUpsert ==
    \/ \E data \in UpsertRecords, fails \in BOOLEAN : UpsertOne(data, fails)
    \/ \E n \in 1..MaxThreads : \E data_list \in UpsertBatches(n) :
           \E fail_at \in 0..n : UpsertBatch(data_list, fail_at)

SpecUpsert == Init /\ [][NextUpsert]_vars

(***************************************************************************)
(* delete_duplicates, on a table that scans of the tree have built.        *)
(***************************************************************************)
\* the lists given as --prefer-directory, and the ways to give --output
DeletePreferred == {<<>>, <<D_a_b>>}
OutputOptions ==
    {[output_file |-> FALSE, overwrite |-> FALSE, append |-> FALSE]}
        \cup [output_file : {TRUE}, overwrite : BOOLEAN, append : BOOLEAN]

\* delete_duplicates that opens an existing output file for writing when
\* neither --overwrite nor --append is given
FileMode_no_refusal(opt, file_exists) ==
    IF ~opt.output_file THEN "none"
    ELSE IF file_exists /\ ~opt.overwrite /\ opt.append THEN "a"
    ELSE "w"

\* file_mode of delete_duplicates; "refused": the error message and return
FileMode(opt, file_exists) ==
    IF ~opt.output_file THEN "none"
    ELSE IF ~file_exists \/ opt.overwrite THEN "w"
    ELSE IF opt.append THEN "a"
    ELSE "refused"

\* the loop over group['duplicates']: os.remove of each path, which raises
\* for a path that is not on disk; the paths appended to deleted_files
RECURSIVE RemoveEach(_, _, _, _)
RemoveEach(dsk, dups, simulate_delete, deleted_files) ==
    IF dups = <<>> THEN [disk |-> dsk, deleted_files |-> deleted_files]
    ELSE IF simulate_delete
    THEN RemoveEach(dsk, Tail(dups), simulate_delete,
                    Append(deleted_files, Head(dups)))
    ELSE IF Exists(dsk, Head(dups))
    THEN RemoveEach([dsk EXCEPT ![Resolve(Head(dups))] = None], Tail(dups),
                    simulate_delete, Append(deleted_files, Head(dups)))
    ELSE RemoveEach(dsk, Tail(dups), simulate_delete, deleted_files)

\* the loop over duplicates_list, in the order in which the list holds the
\* groups
RECURSIVE RemoveGroups(_, _, _, _)
RemoveGroups(dsk, groups, simulate_delete, deleted_files) ==
    IF groups = {} THEN [disk |-> dsk, deleted_files |-> deleted_files]
    ELSE LET group == CHOOSE g \in groups : TRUE
             res == RemoveEach(dsk, group.duplicates, simulate_delete,
                               deleted_files)
         IN  RemoveGroups(res.disk, groups \ {group}, simulate_delete,
                          res.deleted_files)

\* delete_duplicates
delete_duplicates(preferred, opt, simulate_delete, within, order) ==
    /\ pc \in Stopped
    /\ LET groups == get_duplicates(db, preferred, within, order)
           file_mode == FileMode(opt, output_exists)
           res == RemoveGroups(disk, groups, simulate_delete, <<>>)
       IN  /\ duplicates_list' = groups
           /\ queried' = [preferred |-> preferred, within |-> within]
           /\ disk' = IF file_mode = "refused" THEN disk ELSE res.disk
           /\ output_exists' = (output_exists \/ file_mode \in {"w", "a"})
           /\ deletion' =
                  [simulate_delete |-> simulate_delete,
                   refused |-> file_mode = "refused",
                   groups |-> groups,
                   deleted_files |-> IF file_mode = "refused" THEN None
                                     ELSE res.deleted_files,
                   opt |-> opt,
                   output_before |-> output_exists,
                   disk_before |-> disk,
                   rows_before |-> db]
    /\ pc' = "idle"
    /\ files_to_process' = <<>>
    /\ batch_num' = 0
    /\ threads' = <<>>
    /\ batch_processed_data' = <<>>
    /\ produced' = <<>>
    /\ skipped' = <<>>
    /\ committed' = {}
    /\ write_failed' = <<>>
    /\ interrupted' = [signalled |-> FALSE, pending |-> <<>>]
    /\ scan_clean' = FALSE
    /\ cancelled' = NoCancelled
    /\ cleaned' = None
    /\ baseline' = NoSnapshot
    /\ UNCHANGED <<unreadable, db, now, directory, skip_existing, num_threads,
                   processed_data, env_changes, select_vars, upsert>>

NextDelete ==
    \/ \E n \in 1..MaxThreads : main(D_root, FALSE, n)
    \/ SpawnThread
    \/ \E i \in 1..Len(threads) : process_file_wrapper(i)
    \/ FlushBatch(0)
    \/ \E preferred \in DeletePreferred, opt \in OutputOptions,
          simulate_delete \in BOOLEAN, within \in WithinDirectories,
          order \in RowOrders :
           delete_duplicates(preferred, opt, simulate_delete, within, order)

SpecDelete == Init /\ [][NextDelete]_vars

(***************************************************************************)
(* Properties.                                                             *)
(***************************************************************************)
\* the record `data` is in the table as written by the running command
Persisted(data) == Row(data, now) \in db

\* C1: when SIGINT ends a scan, every result that was in the batch's list
\* when the signal came is in the table once the process has exited.
C1_InterruptFlushesPending ==
    pc = "exited" =>
        \A i \in 1..Len(interrupted.pending) : Persisted(interrupted.pending[i])

\* C2: at the exit of a cancelled scan the table holds every record of
\* every batch whose insert was committed and no record of any other batch.
C2_CancelledScanKeepsCommittedBatches ==
    pc = "exited" =>
        \A b \in DOMAIN produced :
            \A i \in 1..Len(produced[b]) :
                Persisted(produced[b][i]) <=> b \in committed

C2_Witness ==
    /\ pc = "exited"
    /\ committed # {}
    /\ \E b \in DOMAIN produced : b \notin committed /\ produced[b] # <<>>

\* C3: no two rows of the table have the same path.
C3_PathUnique == \A r1, r2 \in db : r1.path = r2.path => r1 = r2

C3_Witness ==
    /\ baseline.valid
    /\ \E r \in db : \E q \in baseline.rows :
           q.path = r.path /\ q.last_checked < r.last_checked

\* C4: when the write of one record of a batch fails in insert_data_batch,
\* every other record of that batch is in the table after the call.
C4_FailedWriteKeepsOthers ==
    \A b \in DOMAIN write_failed :
        write_failed[b] # 0 =>
            \A i \in 1..Len(produced[b]) :
                i # write_failed[b] => Persisted(produced[b][i])

\* C5: when a worker of a batch has been started, the records produced by
\* every earlier batch of the scan are committed (but for a record whose own
\* write raised).
C5_BatchCommittedBeforeNext ==
    \A i \in 1..Len(threads) :
        \A b \in 1..(threads[i].batch - 1) :
            \A k \in 1..Len(produced[b]) :
                k # write_failed[b] => Persisted(produced[b][k])

\* C6: at most num_threads workers run, all of them of one batch.
C6_BoundedWorkersOneBatch ==
    /\ Cardinality(Running(threads)) <= num_threads
    /\ \A i, j \in Running(threads) : threads[i].batch = threads[j].batch

C6_Witness ==
    /\ num_threads > 1
    /\ Cardinality(Running(threads)) = num_threads
    /\ batch_num < NumBatches(files_to_process, num_threads)

\* C8: a file that is absent or unreadable when its worker hashes it gets no
\* record from the batch, the records of the other files of the batch are in
\* the table once the batch is committed, and a scan that is not cancelled
\* runs a worker for every file of every batch.
C8_SkippedFileDoesNotAbortBatch ==
    /\ \A b \in committed :
           /\ \A f \in skipped[b] :
                  ~\E r \in db : r.path = Absolute(f) /\ r.last_checked = now
           /\ \A k \in 1..Len(produced[b]) : Persisted(produced[b][k])
    /\ pc = "complete" =>
           \A k \in 1..Len(files_to_process) :
               \E i \in 1..Len(threads) :
                   threads[i].file = files_to_process[k] /\ threads[i].st = "done"

C8_Witness ==
    /\ pc = "complete"
    /\ \E b \in committed :
           /\ skipped[b] # {}
           /\ produced[b] # <<>>
           /\ b + 1 \in committed

\* fingerprint, size and lastModified of every path
Records(rows) ==
    {[path |-> r.path, hash |-> r.hash, size |-> r.size,
      last_modified |-> r.last_modified] : r \in rows}

\* C9: a complete scan of a tree that has not changed since an earlier
\* complete scan of the same directory leaves the same paths with the same
\* fingerprint, size and lastModified; lastChecked does not decrease.
C9_ScanIdempotent ==
    (pc = "complete" /\ scan_clean /\ baseline.valid
        /\ baseline.directory = directory) =>
        /\ Records(db) = Records(baseline.rows)
        /\ \A r \in db : \A q \in baseline.rows :
               q.path = r.path => q.last_checked <= r.last_checked

C9_Witness ==
    /\ pc = "complete" /\ scan_clean /\ baseline.valid
    /\ baseline.directory = directory
    /\ ~skip_existing
    /\ \E r \in db : \E q \in baseline.rows :
           q.path = r.path /\ q.last_checked < r.last_checked

Members(g) == {g.original} \cup Range(g.duplicates)

\* C10: get_duplicates without within_directory returns one group for each
\* fingerprint that at least 2 paths of the table have, and the members of
\* the group are the paths that have the fingerprint.
C10_GroupsAreFingerprintClasses ==
    (queried # None /\ queried.within = NoPath) =>
        /\ \A g \in duplicates_list :
               /\ Members(g) = {r.path : r \in {q \in db : q.hash = g.hash}}
               /\ Cardinality(Members(g)) >= 2
               /\ Len(g.duplicates) + 1 = Cardinality(Members(g))
        /\ \A g1, g2 \in duplicates_list : g1.hash = g2.hash => g1 = g2
        /\ \A r1, r2 \in db :
               r1.path # r2.path =>
                   (r1.hash = r2.hash <=>
                       \E g \in duplicates_list :
                           {r1.path, r2.path} \subseteq Members(g))

C10_Witness ==
    /\ queried # None /\ queried.within = NoPath
    /\ duplicates_list # {}
    /\ \E r \in db : \A g \in duplicates_list : r.path \notin Members(g)

\* C11: with within_directory = D, every member of every group returned by
\* get_duplicates is a path in or below D (not a path of a sibling directory
\* whose name starts with D's name), and a group is returned for a
\* fingerprint only when at least 2 paths in or below D have it.
C11_WithinDirectoryGroups ==
    (queried # None /\ queried.within # NoPath) =>
        \A g \in duplicates_list :
            /\ \A p \in Members(g) : InTree(queried.within, p)
            /\ Cardinality({r \in db : /\ r.hash = g.hash
                                       /\ InTree(queried.within, r.path)}) >= 2

\* p is the directory d or a path in or below it
Under(d, p) == p = d \/ InTree(d, p)

\* the preferred directories that hold a member of the group
Holding(files, dirs) ==
    {i \in 1..Len(dirs) : \E f \in Range(files) : Under(dirs[i], f)}

\* C12: with a preferred list of which some directory holds a member of the
\* group, the original is a member in or below the first such directory.
C12_OriginalInFirstPreferred ==
    (group_entry # None /\ Holding(group_files, group_preferred) # {}) =>
        Under(group_preferred[MinOf(Holding(group_files, group_preferred))],
              group_entry.original)

\* f comes before g: fewer parts, or as many and shorter, or as many and as
\* long and smaller as a string
PathBefore(f, g) ==
    \/ Parts(f) < Parts(g)
    \/ Parts(f) = Parts(g) /\ Len(f) < Len(g)
    \/ Parts(f) = Parts(g) /\ Len(f) = Len(g) /\ StrLess(f, g)

\* C13: no_matching_original of a group's dictionary is true exactly when a
\* preferred list was given and no member of the group is in or below any
\* of its directories, and the original is then the least member of the
\* whole group by depth, length and lexicographic order.
C13_NoMatchingOriginalFlag ==
    group_entry # None =>
        LET unmatched == /\ group_preferred # <<>>
                         /\ Holding(group_files, group_preferred) = {}
        IN  /\ group_entry.no_matching_original <=> unmatched
            /\ unmatched =>
                   \A f \in Range(group_files) \ {group_entry.original} :
                       PathBefore(group_entry.original, f)

\* the candidates select_original is left with after the loop over the
\* preferred directories
Candidates ==
    LET found == PreferredDirectoryFiles(group_files, group_preferred)
    IN  Range(IF found = <<>> THEN group_files ELSE found)

\* C14: the original is a candidate, and every other candidate has more
\* directory segments, or as many and a longer path, or as many and as long
\* a path that compares greater; /a/x is chosen of /a/b/x and /a/x, and of
\* /b/x and /a/x.
C14_OriginalIsLeastCandidate ==
    group_entry # None =>
        /\ group_entry.original \in Candidates
        /\ \A f \in Candidates \ {group_entry.original} :
               PathBefore(group_entry.original, f)
        /\ (group_preferred = <<>> /\ Range(group_files) \in {{F_abx, F_ax}, {F_bx, F_ax}})
               => group_entry.original = F_ax

C14_Witness ==
    /\ group_entry # None
    /\ group_preferred = <<D_ab, D_a>>
    /\ group_files = <<F_bx, F_abx, F_ax>>
    /\ Candidates = {F_abx, F_ax}
    /\ group_entry.original = F_ax

\* the lists that hold the elements of s in every order
Orders(s) ==
    {q \in [1..Len(s) -> Range(s)] : Range(q) = Range(s)}

\* C15: select_original returns one member of the group as the original and
\* the other members as the duplicates, and it returns the same original for
\* every order of the group's paths.
C15_TotalAndOrderIndependent ==
    group_entry # None =>
        /\ group_entry.original \in Range(group_files)
        /\ Range(group_entry.duplicates) =
               Range(group_files) \ {group_entry.original}
        /\ Len(group_entry.duplicates) = Len(group_files) - 1
        /\ \A q \in Orders(group_files) :
               select_original(q, group_preferred).original
                   = group_entry.original

C15_Witness ==
    /\ group_entry # None
    /\ Len(group_files) = MaxGroup
    /\ group_preferred # <<>>
    /\ group_entry.original # group_files[1]
    /\ Cardinality(Candidates) > 1

\* the paths of the rows the last remove_missing_files deleted
Removed == {r.path : r \in cleaned.before \ db}

\* C16: after remove_missing_files no row of the table has a path that is
\* absent from disk, every row whose path exists is as it was before, and
\* no path whose row was deleted is a member of a group of get_duplicates.
C16_CleanupRemovesExactlyMissing ==
    cleaned # None =>
        /\ \A r \in db : Exists(disk, r.path)
        /\ \A r \in cleaned.before : Exists(disk, r.path) => r \in db
        /\ db \subseteq cleaned.before
        /\ \A preferred \in PreferredLists, within \in WithinDirectories,
              order \in RowOrders :
               \A g \in get_duplicates(db, preferred, within, order) :
                   Members(g) \cap Removed = {}

C16_Witness ==
    /\ cleaned # None
    /\ Removed # {}
    /\ \E order \in RowOrders : get_duplicates(db, <<>>, NoPath, order) # {}

\* C17: when a worker of the scan finds the file of a row of the table absent
\* from disk, the row is gone from the table once the worker is done.
C17_AbsentPathDeletedAtOnce ==
    \A i \in 1..Len(threads) :
        (/\ threads[i].st = "done"
         /\ threads[i].file \in skipped[threads[i].batch]
         /\ ~Exists(disk, threads[i].file)) =>
            ~\E r \in db : r.path = Absolute(threads[i].file)

\* the rows written before the running command that are of the file f
RecordsBefore(f) ==
    {r \in db : r.last_checked < now /\ Resolve(r.path) = Resolve(f)}

\* C18: a scan with skip_existing starts no worker for a file that had a row
\* in the table when the scan began, and a scan that completes has run a
\* worker for every file under the root that had none, however the root was
\* spelled when the row was written and however it is spelled now.
C18_SkipExistingHashesOnlyNew ==
    (skip_existing /\ pc \in {"spawn", "join", "complete", "exiting", "exited"}) =>
        /\ \A i \in 1..Len(threads) : RecordsBefore(threads[i].file) = {}
        /\ (pc = "complete" /\ scan_clean) =>
               \A f \in Range(walk_directory(disk, unreadable, directory)) :
                   RecordsBefore(f) = {} =>
                       \E i \in 1..Len(threads) : threads[i].file = f

\* C19: a scan with skip_existing that follows a cancelled scan of the same
\* unchanged tree hashes no file that the cancelled scan hashed in a batch
\* before the one that was in flight when it was cancelled.
C19_OnlyInFlightBatchRehashed ==
    (cancelled.valid /\ skip_existing
        /\ pc \in {"spawn", "join", "complete", "exiting"}) =>
        \A b \in DOMAIN produced :
            \A k \in 1..Len(produced[b]) :
                Resolve(produced[b][k].path) \notin cancelled.settled

\* C20: every path of the table is absolute and free of symbolic links, and
\* no two rows of the table are of one file.
C20_OneRecordPerFile ==
    /\ \A r \in db : r.path = Resolve(r.path)
    /\ \A r1, r2 \in db : Resolve(r1.path) = Resolve(r2.path) => r1 = r2

\* C21: after a successful insert_data or insert_data_batch the table has,
\* for every record written, one row with the record's path, hash, size and
\* last_modified and with last_checked the time of the call, whether or not
\* the path had a row before, and the rows of all other paths are as they
\* were.
C21_UpsertWritesRecordKeepsOthers ==
    (upsert # None /\ upsert.ok) =>
        LET written == {upsert.data_list[i].path : i \in 1..Len(upsert.data_list)}
        IN  /\ \A i \in 1..Len(upsert.data_list) :
                   {r \in db : r.path = upsert.data_list[i].path}
                       = {Row(upsert.data_list[i], now)}
            /\ {r \in db : r.path \notin written}
                   = {r \in upsert.before : r.path \notin written}

C21_Witness ==
    /\ upsert # None /\ upsert.ok
    /\ Len(upsert.data_list) > 1
    /\ \E r \in upsert.before : r.path = upsert.data_list[1].path
    /\ \E r \in upsert.before : \A i \in 1..Len(upsert.data_list) :
           r.path # upsert.data_list[i].path
    /\ \E r \in db : r \notin upsert.before /\
           \A q \in upsert.before : q.path # r.path

\* the directories at or below the root of the scan
DirsOfScan ==
    {d \in AllDirs : d = Resolve(directory) \/ InTree(Resolve(directory), d)}

\* the file g is below an unreadable directory of the scan
BelowUnreadable(g) ==
    \E d \in DirsOfScan \cap unreadable : InTree(d, g)

\* C22: the list main gets from walk_directory holds every file below the
\* root that is not below an unreadable directory (so also the files of
\* the siblings of an unreadable directory), no path below an unreadable
\* directory, and no path that goes through a symbolic link below the root.
C22_WalkPrunesUnreadableOnly ==
    (pc # "idle" /\ ~skip_existing /\ env_changes = 0) =>
        /\ \A g \in FilePaths :
               (Exists(disk, g) /\ InTree(Resolve(directory), g)
                   /\ ~BelowUnreadable(g)) =>
                   PathJoin(directory, g) \in Range(files_to_process)
        /\ \A f \in Range(files_to_process) :
               /\ Exists(disk, f)
               /\ ~BelowUnreadable(Resolve(f))
               /\ \A l \in SymLinks \ {directory} : ~InTree(l, f)

C22_Witness ==
    /\ pc = "spawn" /\ ~skip_existing
    /\ directory = D_root
    /\ unreadable = {D_a_b}
    /\ \A g \in FilePaths : Exists(disk, g)
    /\ Range(files_to_process) = {F_ax, F_ab_x}

\* no write of the scan has raised
NoStoreError == \A b \in DOMAIN write_failed : write_failed[b] = 0

\* the file f of files_to_process was hashed by its worker
Hashed(f) == \A b \in DOMAIN skipped : f \notin skipped[b]

\* C23: a scan that has started completes unless it is cancelled, and when a
\* scan without store error has completed, every file of files_to_process
\* that its worker could hash has a row written by this scan with the hash
\* of the file's content.
C23_ScanTerminatesWithRecords ==
    /\ [](pc \in {"spawn", "join"} => <>(pc \in {"complete", "exiting"}))
    /\ []((pc = "complete" /\ NoStoreError) =>
             \A k \in 1..Len(files_to_process) :
                 Hashed(files_to_process[k]) =>
                     \E r \in db :
                         /\ r.path = Absolute(files_to_process[k])
                         /\ r.last_checked = now
                         /\ r.hash =
                                XXH64(disk[Resolve(files_to_process[k])].content))

C23_Witness ==
    /\ pc = "complete" /\ NoStoreError
    /\ Len(files_to_process) > num_threads
    /\ now > 1
    /\ \E k \in 1..Len(files_to_process) : ~Hashed(files_to_process[k])
    /\ \E k \in 1..Len(files_to_process) : Hashed(files_to_process[k])

\* the last command was delete_duplicates, and it has returned
Deleted == pc = "idle" /\ deletion # None

\* delete_duplicates was given an output file that existed, without
\* --overwrite and without --append
OutputInTheWay ==
    /\ Deleted
    /\ deletion.opt.output_file /\ deletion.output_before
    /\ ~deletion.opt.overwrite /\ ~deletion.opt.append

\* C24: given an output file that already exists and neither overwrite nor
\* append, delete_duplicates reports the error and returns without a list;
\* it deletes no file, and the files on disk and the rows of the table are
\* the ones from before the call.
C24_ExistingOutputRefused ==
    OutputInTheWay =>
        /\ deletion.refused
        /\ deletion.deleted_files = None
        /\ disk = deletion.disk_before
        /\ db = deletion.rows_before

\* a refused real run over a group whose duplicates are on disk
C24_Witness ==
    /\ OutputInTheWay
    /\ ~deletion.simulate_delete
    /\ \E g \in deletion.groups :
           \E k \in 1..Len(g.duplicates) : Exists(disk, g.duplicates[k])

\* the paths that a real run of delete_duplicates over the groups of the
\* last call, on the disk of before that call, deletes
RealRun == RemoveGroups(deletion.disk_before, deletion.groups, FALSE, <<>>)

\* C25: with simulate_delete set, delete_duplicates removes no file from
\* disk and changes no row of the table, and it returns the list of paths
\* that a real run on the same table and with the same preferred
\* directories deletes.
C25_SimulationMatchesRealRun ==
    (Deleted /\ deletion.simulate_delete /\ ~deletion.refused) =>
        /\ disk = deletion.disk_before
        /\ db = deletion.rows_before
        /\ deletion.deleted_files = RealRun.deleted_files

\* the part of C25 about disk and table
SimulationChangesNothing ==
    (Deleted /\ deletion.simulate_delete) =>
        disk = deletion.disk_before /\ db = deletion.rows_before

\* the files on disk among the records of one fingerprint
CopiesOnDisk(file_hash) ==
    {r.path : r \in {q \in db : q.hash = file_hash /\ Exists(disk, q.path)}}

\* C26: after any sequence of delete_duplicates runs on a table built by a
\* scan, with any preferred-directory lists and no cleanup in between, at
\* least one file of every duplicate group of the table is still on disk.
C26_OneCopySurvives ==
    \A file_hash \in DuplicateHashes(db) : CopiesOnDisk(file_hash) # {}

\* the number of places at which the list s holds p
Occurrences(s, p) == Cardinality({k \in DOMAIN s : s[k] = p})

\* C27: for a group of at least 2 distinct paths, the original that
\* select_original returns is a member of the group, and the duplicates
\* list holds the original at no place and every other member at exactly
\* one place, and nothing else: original and duplicates partition the group.
C27_OriginalAndDuplicatesPartition ==
    (group_entry # None /\ Len(group_files) >= 2) =>
        /\ Occurrences(group_files, group_entry.original) = 1
        /\ Occurrences(group_entry.duplicates, group_entry.original) = 0
        /\ \A p \in Range(group_files) \ {group_entry.original} :
               Occurrences(group_entry.duplicates, p) = 1
        /\ \A k \in DOMAIN group_entry.duplicates :
               group_entry.duplicates[k] \in Range(group_files)

\* a group of the largest size whose original is neither its first nor its
\* last path
C27_Witness ==
    /\ group_entry # None
    /\ Len(group_files) = MaxGroup
    /\ group_entry.original # group_files[1]
    /\ group_entry.original # group_files[Len(group_files)]
    /\ Len(group_entry.duplicates) = MaxGroup - 1

\* the process of a scan has received SIGINT and has not exited yet
Cancelling == interrupted.signalled /\ pc # "exited"

\* C28: from the step that receives SIGINT on, the batch loop of the scan
\* does not advance and starts no worker, so none of a later batch; no batch
\* is committed and the table gets no row; and the process exits once the
\* workers in flight have finished.
C28_CancelledScanStopsAndExits ==
    /\ [][(interrupted'.signalled /\ pc # "exited") =>
              /\ batch_num' = batch_num
              /\ Len(threads') = Len(threads)
              /\ committed' = committed
              /\ db' = db]_vars
    /\ (Cancelling ~> pc = "exited")

\* SIGINT has come while workers run and batches are left
C28_Witness ==
    /\ Cancelling
    /\ Running(threads) # {}
    /\ batch_num < NumBatches(files_to_process, num_threads)
====
